---- MODULE Spec2Model ----
(***************************************************************************)
(* Model of ros2_sdk/ros2_sdk.py: the ROS2SDK class (connect, disconnect,  *)
(* the background receive loop, the dispatcher and the send_* commands)    *)
(* together with the parts of pyzmq and msgpack the class relies on.       *)
(*                                                                         *)
(* Every connect call creates one zmq.Context; contexts, sockets and       *)
(* receive threads are identified by the number of the connect call that   *)
(* created them (1, 2, ...).  The handle value 0 stands for None.          *)
(***************************************************************************)
EXTENDS Integers, Sequences, FiniteSets, TLC

(* ------------------------------ bounds -------------------------------- *)
MaxConnects == 2
MaxMsgs == 2
MaxWire == 1
MaxSends == 1
MaxPts == 2

Ids == 1..MaxConnects

(* ------------------------ message type tags --------------------------- *)
TypeFeedback == 1
TypeState == 2
TypeCalcState == 10
TypeTrajectory == 20
TypePosition == 30
TypeVelocity == 31
TypeEffort == 32
TypeJoypad == 50

(* ----------------- msgpack: the bytes of the encoding ----------------- *)
(* positive fixint 0..127, fixmap 128+n, fixarray 144+n, fixstr 160+..,   *)
(* 193 is the byte msgpack never uses.  A key/value map is abstracted to  *)
(* its values in the fixed key order type, name_publisher, payload; a     *)
(* string to one byte naming it.                                          *)
FixMap == 128
FixArray == 144
FixStr == 160
NeverUsed == 193

IsInt(b) == b >= 0 /\ b < FixMap
IsMap(b) == b >= FixMap /\ b < FixArray
IsArr(b) == b >= FixArray /\ b < FixStr
IsStr(b) == b >= FixStr /\ b < NeverUsed

NameCode(n) == IF n = "arm1" THEN FixStr ELSE FixStr + 1
CodeName(b) == IF b = FixStr THEN "arm1" ELSE "cam"

(* msgpack.packb of an inbound-shaped record: a map of its fields.        *)
Packb(r) ==
  IF "payload" \in DOMAIN r
  THEN <<FixMap + 3, r.type, NameCode(r.name_publisher), FixArray + Len(r.payload)>>
       \o r.payload
  ELSE <<FixMap + 2, r.type, NameCode(r.name_publisher)>>

(* Length of the first complete object at the head of buf: 0 when the     *)
(* buffer ends inside it (OutOfData), -1 when the bytes are malformed.    *)
ObjLen(buf) ==
  IF buf = <<>> THEN 0
  ELSE LET b == buf[1] IN
    IF IsInt(b) \/ IsStr(b) THEN 1
    ELSE IF IsArr(b) THEN
      LET n == b - FixArray IN
        IF \E i \in 2..Len(buf) : i <= 1 + n /\ ~IsInt(buf[i]) THEN -1
        ELSE IF Len(buf) >= 1 + n THEN 1 + n ELSE 0
    ELSE IF IsMap(b) THEN
      LET n == b - FixMap IN
        IF n < 2 \/ n > 3 THEN -1
        ELSE IF Len(buf) >= 2 /\ ~IsInt(buf[2]) THEN -1
        ELSE IF Len(buf) >= 3 /\ ~IsStr(buf[3]) THEN -1
        ELSE IF n = 2 THEN (IF Len(buf) >= 3 THEN 3 ELSE 0)
        ELSE IF Len(buf) >= 4 /\ ~IsArr(buf[4]) THEN -1
        ELSE IF Len(buf) < 4 THEN 0
        ELSE LET m == buf[4] - FixArray IN
          IF \E i \in 5..Len(buf) : i <= 4 + m /\ ~IsInt(buf[i]) THEN -1
          ELSE IF Len(buf) >= 4 + m THEN 4 + m ELSE 0
    ELSE -1

(* The Python object one complete encoded object decodes to.              *)
Unpack(obj) ==
  IF IsMap(obj[1])
  THEN IF obj[1] = FixMap + 3
       THEN [type |-> obj[2], name_publisher |-> CodeName(obj[3]),
             payload |-> SubSeq(obj, 5, Len(obj))]
       ELSE [type |-> obj[2], name_publisher |-> CodeName(obj[3])]
  ELSE [nondict |-> obj]

RECURSIVE DrainNoBuffer(_)
DrainNoBuffer(buf) ==
  LET n == ObjLen(buf) IN
    IF n = 0 THEN [msgs |-> <<>>, rest |-> <<>>, err |-> FALSE]
    ELSE IF n < 0 THEN [msgs |-> <<>>, rest |-> <<>>, err |-> TRUE]
    ELSE LET d == DrainNoBuffer(SubSeq(buf, n + 1, Len(buf))) IN
      [msgs |-> <<Unpack(SubSeq(buf, 1, n))>> \o d.msgs, rest |-> d.rest, err |-> d.err]

(* msgpack.Unpacker: the objects `for msg in unpacker` yields from the    *)
(* buffer, the bytes left buffered, and whether the iteration raised.     *)
RECURSIVE Drain(_)
Drain(buf) ==
  LET n == ObjLen(buf) IN
    IF n = 0 THEN [msgs |-> <<>>, rest |-> buf, err |-> FALSE]
    ELSE IF n < 0 THEN [msgs |-> <<>>, rest |-> buf, err |-> TRUE]
    ELSE LET d == Drain(SubSeq(buf, n + 1, Len(buf))) IN
      [msgs |-> <<Unpack(SubSeq(buf, 1, n))>> \o d.msgs, rest |-> d.rest, err |-> d.err]

(* ------------------------------- state -------------------------------- *)
VARIABLES
  protocol,         \* self._protocol ("None" before the first connect)
  endpoint_recv,    \* self._endpoint_recv (<<>> is None)
  endpoint_send,    \* self._endpoint_send
  zmq_context,      \* self._zmq_context (0 is None)
  zmq_socket_recv,  \* self._zmq_socket_recv
  zmq_socket_send,  \* self._zmq_socket_send
  recv_thread,      \* self._recv_thread
  running,          \* self._running
  feedback,         \* values published on self._feedback_subject, in order
  state,            \* values published on self._state_subject, in order
  nctx,             \* contexts created so far (= connect calls made)
  ctxTerms,         \* per context: number of term() calls made on it
  rsocks,           \* PULL sockets created
  ssocks,           \* PUSH sockets created
  rCloses,          \* per PULL socket: number of close() calls made on it
  sCloses,          \* per PUSH socket: number of close() calls made on it
  sconn,            \* PUSH sockets whose connect() succeeded
  wire,             \* per PULL socket: frames queued for recv()
  tpc,              \* per receive thread: where it is in _recv_loop
  tsock,            \* per receive thread: the socket its recv() was issued on
  tdata,            \* per receive thread: the data recv() returned
  tbuf,             \* per receive thread: its Unpacker's buffer
  dispatched,       \* per thread: the msgs handed to _handle_incoming_message
  pushedTo,         \* per frame the remote side has pushed, in order: the socket
  peerLog,          \* records the remote side has written, in order
  peerBuf,          \* bytes of them not yet put on the wire
  sent,             \* (socket, record) of every frame handed to send()
  callerPc,         \* "idle", or "join" while disconnect waits in join()
  lastOp,           \* the caller operation that returned last
  prevOp,           \* the caller operation that returned before it
  result,           \* how it ended: "ok" or the exception raised
  connected         \* a connect has succeeded and no disconnect was called since

inst == <<protocol, endpoint_recv, endpoint_send, zmq_context, zmq_socket_recv,
          zmq_socket_send, recv_thread, running>>
streams == <<feedback, state>>
zmqs == <<nctx, ctxTerms, rsocks, ssocks, rCloses, sCloses, sconn>>
threads == <<tpc, tsock, tdata, tbuf, dispatched>>
peer == <<wire, pushedTo, peerLog, peerBuf>>
caller == <<callerPc, lastOp, prevOp, result, connected>>
vars == <<inst, streams, zmqs, threads, peer, sent, caller>>

(* ROS2SDK.__init__ *)
Init ==
  /\ protocol = "None"
  /\ endpoint_recv = <<>>
  /\ endpoint_send = <<>>
  /\ zmq_context = 0
  /\ zmq_socket_recv = 0
  /\ zmq_socket_send = 0
  /\ recv_thread = 0
  /\ running = FALSE
  /\ feedback = <<>>
  /\ state = <<>>
  /\ nctx = 0
  /\ ctxTerms = [k \in Ids |-> 0]
  /\ rsocks = {}
  /\ ssocks = {}
  /\ rCloses = [k \in Ids |-> 0]
  /\ sCloses = [k \in Ids |-> 0]
  /\ sconn = {}
  /\ wire = [k \in Ids |-> <<>>]
  /\ tpc = [k \in Ids |-> "none"]
  /\ tsock = [k \in Ids |-> 0]
  /\ tdata = [k \in Ids |-> <<>>]
  /\ tbuf = [k \in Ids |-> <<>>]
  /\ dispatched = [k \in Ids |-> <<>>]
  /\ pushedTo = <<>>
  /\ peerLog = <<>>
  /\ peerBuf = <<>>
  /\ sent = <<>>
  /\ callerPc = "idle"
  /\ lastOp = "init"
  /\ prevOp = "init"
  /\ result = "ok"
  /\ connected = FALSE


(* ------------------------------ connect ------------------------------- *)
None == "None"
BadAddr == {"bogus"}

UpperOnlyExact(s) == s

(* str.upper() on the protocol names the inputs use *)
Upper(s) ==
  CASE s = "tcp" -> "TCP"
    [] s = "uds" -> "UDS"
    [] s = "0mq" -> "0MQ"
    [] s = "zmq" -> "ZMQ"
    [] OTHER -> s

(* params.get(key) *)
Get(params, key) == IF key \in DOMAIN params THEN params[key] ELSE None

(* platform.system(): the model runs the SDK on a platform with UDS *)
System == "Linux"

(* The if/elif chain of connect: the ValueError it raises, or the two     *)
(* endpoints it stores.                                                   *)
Validate(P, params) ==
  LET bad == [err |-> TRUE, er |-> <<>>, es |-> <<>>] IN
  IF P = "TCP" THEN
    IF Get(params, "ip") = None THEN bad
    ELSE IF Get(params, "port_recv") = None \/ Get(params, "port_send") = None THEN bad
    ELSE [err |-> FALSE,
          er |-> <<"tcp://", Get(params, "ip"), ":", Get(params, "port_recv")>>,
          es |-> <<"tcp://", Get(params, "ip"), ":", Get(params, "port_send")>>]
  ELSE IF P = "UDS" THEN
    IF System = "Windows" THEN bad
    ELSE IF Get(params, "path_recv") = None \/ Get(params, "path_send") = None THEN bad
    ELSE [err |-> FALSE,
          er |-> <<"ipc://", Get(params, "path_recv")>>,
          es |-> <<"ipc://", Get(params, "path_send")>>]
  ELSE IF P = "0MQ" THEN
    IF Get(params, "endpoint_recv") = None \/ Get(params, "endpoint_send") = None THEN bad
    ELSE [err |-> FALSE,
          er |-> <<Get(params, "endpoint_recv")>>,
          es |-> <<Get(params, "endpoint_send")>>]
  ELSE bad

(* zmq: Socket.connect(endpoint) raises ZMQError on an endpoint it cannot parse *)
EndpointOK(e) == \A i \in 1..Len(e) : e[i] \notin BadAddr

(* What one connect call does after creating its context: how it ends,    *)
(* whether it stores the endpoints, which sockets it creates and assigns, *)
(* and whether it reaches the lines that start the receive thread.        *)
ConnectPlanSocketsFirst(p, params) ==
  LET v == Validate(Upper(p), params) IN
    IF v.err
    THEN [res |-> "ValueError", setEp |-> FALSE, mkRecv |-> TRUE, mkSend |-> TRUE,
          connSend |-> FALSE, start |-> FALSE, er |-> <<>>, es |-> <<>>]
    ELSE [res |-> "ok", setEp |-> TRUE, mkRecv |-> TRUE, mkSend |-> TRUE,
          connSend |-> TRUE, start |-> TRUE, er |-> v.er, es |-> v.es]

ConnectPlan(p, params) ==
  LET v == Validate(Upper(p), params) IN
    IF v.err
    THEN [res |-> "ValueError", setEp |-> FALSE, mkRecv |-> FALSE, mkSend |-> FALSE,
          connSend |-> FALSE, start |-> FALSE, er |-> <<>>, es |-> <<>>]
    ELSE IF ~EndpointOK(v.er)
    THEN [res |-> "ZMQError", setEp |-> TRUE, mkRecv |-> TRUE, mkSend |-> FALSE,
          connSend |-> FALSE, start |-> FALSE, er |-> v.er, es |-> v.es]
    ELSE IF ~EndpointOK(v.es)
    THEN [res |-> "ZMQError", setEp |-> TRUE, mkRecv |-> TRUE, mkSend |-> TRUE,
          connSend |-> FALSE, start |-> FALSE, er |-> v.er, es |-> v.es]
    ELSE [res |-> "ok", setEp |-> TRUE, mkRecv |-> TRUE, mkSend |-> TRUE,
          connSend |-> TRUE, start |-> TRUE, er |-> v.er, es |-> v.es]

(* ROS2SDK.connect *)
Connect(p, params) ==
  LET k == nctx + 1
      c == ConnectPlan(p, params) IN
  /\ callerPc = "idle"
  /\ nctx < MaxConnects
  /\ protocol' = Upper(p)
  /\ nctx' = k
  /\ zmq_context' = k
  /\ endpoint_recv' = IF c.setEp THEN c.er ELSE endpoint_recv
  /\ endpoint_send' = IF c.setEp THEN c.es ELSE endpoint_send
  /\ rsocks' = IF c.mkRecv THEN rsocks \cup {k} ELSE rsocks
  /\ zmq_socket_recv' = IF c.mkRecv THEN k ELSE zmq_socket_recv
  /\ ssocks' = IF c.mkSend THEN ssocks \cup {k} ELSE ssocks
  /\ zmq_socket_send' = IF c.mkSend THEN k ELSE zmq_socket_send
  /\ sconn' = IF c.connSend THEN sconn \cup {k} ELSE sconn
  /\ running' = IF c.start THEN TRUE ELSE running
  /\ recv_thread' = IF c.start THEN k ELSE recv_thread
  /\ tpc' = IF c.start THEN [tpc EXCEPT ![k] = "check"] ELSE tpc
  /\ connected' = IF c.start THEN TRUE ELSE connected
  /\ lastOp' = "connect"
  /\ prevOp' = lastOp
  /\ result' = c.res
  /\ callerPc' = "idle"
  /\ UNCHANGED <<streams, ctxTerms, rCloses, sCloses, tsock, tdata, tbuf,
                 dispatched, peer, sent>>

(* ----------------------------- disconnect ----------------------------- *)
(* disconnect, up to the join(): clears the flag, then waits for the      *)
(* thread in self._recv_thread (if any).                                  *)
DisconnectStart ==
  /\ callerPc = "idle"
  /\ running' = FALSE
  /\ connected' = FALSE
  /\ callerPc' = "join"
  /\ UNCHANGED <<protocol, endpoint_recv, endpoint_send, zmq_context, zmq_socket_recv,
                 zmq_socket_send, recv_thread, streams, zmqs, threads, peer, sent,
                 lastOp, prevOp, result>>

(* The handle left in the field after its object was released *)
KeepHandle(h) == h

Released(h) == 0

(* close() / term() on handle h (nothing on None) *)
Bump(counts, h) == IF h = 0 THEN counts ELSE [counts EXCEPT ![h] = @ + 1]

(* Context.term() returns once every socket of the context is closed *)
TermBlocks(c, rc, sc) ==
  /\ c # 0
  /\ \/ (c \in rsocks /\ rc[c] = 0)
     \/ (c \in ssocks /\ sc[c] = 0)

(* disconnect, from the return of join() to the end *)
DisconnectFinish ==
  /\ callerPc = "join"
  /\ recv_thread # 0 => tpc[recv_thread] = "done"
  /\ rCloses' = Bump(rCloses, zmq_socket_recv)
  /\ zmq_socket_recv' = IF zmq_socket_recv # 0 THEN Released(zmq_socket_recv) ELSE 0
  /\ sCloses' = Bump(sCloses, zmq_socket_send)
  /\ zmq_socket_send' = IF zmq_socket_send # 0 THEN Released(zmq_socket_send) ELSE 0
  /\ IF TermBlocks(zmq_context, rCloses', sCloses')
     THEN /\ callerPc' = "term"
          /\ UNCHANGED <<ctxTerms, zmq_context, lastOp, prevOp, result>>
     ELSE /\ ctxTerms' = Bump(ctxTerms, zmq_context)
          /\ zmq_context' = IF zmq_context # 0 THEN Released(zmq_context) ELSE 0
          /\ callerPc' = "idle"
          /\ lastOp' = "disconnect"
          /\ prevOp' = lastOp
          /\ result' = "ok"
  /\ UNCHANGED <<protocol, endpoint_recv, endpoint_send, recv_thread, running, streams,
                 nctx, rsocks, ssocks, sconn, threads, peer, sent, connected>>


(* a dispatcher that rejects what it does not know *)
RouteUnknownRaises(msg) ==
  IF "type" \notin DOMAIN msg THEN "raise"
  ELSE IF msg.type = TypeFeedback /\ "payload" \in DOMAIN msg THEN "feedback"
  ELSE IF msg.type = TypeState /\ "payload" \in DOMAIN msg THEN "state"
  ELSE "raise"

(* ---------------------------- dispatcher ------------------------------ *)
(* _handle_incoming_message: the stream msg is published on, "drop" for   *)
(* the silent else branch, "raise" when msg.get or msg["payload"] raises. *)
Route(msg) ==
  IF "nondict" \in DOMAIN msg THEN "raise"
  ELSE IF msg.type = TypeFeedback
       THEN (IF "payload" \in DOMAIN msg THEN "feedback" ELSE "raise")
  ELSE IF msg.type = TypeState
       THEN (IF "payload" \in DOMAIN msg THEN "state" ELSE "raise")
  ELSE "drop"

(* The msgs of one `for msg in unpacker` pass that reach the handler: all *)
(* of them up to and including the first the handler raises on.           *)
Handed(msgs) ==
  LET bad == {i \in 1..Len(msgs) : Route(msgs[i]) = "raise"} IN
    IF bad = {} THEN msgs
    ELSE SubSeq(msgs, 1, CHOOSE i \in bad : \A j \in bad : i <= j)

(* subjects that the first teardown completed: on_next delivers nothing   *)
(* on a later connection                                                  *)
PublishedUntilDisconnect(msgs, s) ==
  LET sel == SelectSeq(msgs, LAMBDA m : Route(m) = s) IN
    IF nctx > 1 THEN <<>> ELSE [i \in 1..Len(sel) |-> sel[i].payload]

(* The payloads on_next is called with on stream s for those msgs *)
Published(msgs, s) ==
  LET sel == SelectSeq(msgs, LAMBDA m : Route(m) = s) IN
    [i \in 1..Len(sel) |-> sel[i].payload]

(* --------------------------- receive loop ----------------------------- *)
SockOpen(s) == s \in rsocks /\ rCloses[s] = 0 /\ ctxTerms[s] = 0

(* `while self._running:` *)
ThreadCheck(k) ==
  /\ tpc[k] = "check"
  /\ tpc' = [tpc EXCEPT ![k] = IF running THEN "call" ELSE "done"]
  /\ UNCHANGED <<inst, streams, zmqs, tsock, tdata, tbuf, dispatched, peer,
                 sent, caller>>

(* `self._zmq_socket_recv.recv()` is entered: on None (AttributeError) or *)
(* on a closed socket (ZMQError) the except branch ends the loop.         *)
ThreadIssue(k) ==
  /\ tpc[k] = "call"
  /\ IF SockOpen(zmq_socket_recv)
     THEN /\ tpc' = [tpc EXCEPT ![k] = "recv"]
          /\ tsock' = [tsock EXCEPT ![k] = zmq_socket_recv]
     ELSE /\ tpc' = [tpc EXCEPT ![k] = "done"]
          /\ UNCHANGED tsock
  /\ UNCHANGED <<inst, streams, zmqs, tdata, tbuf, dispatched, peer, sent,
                 caller>>

(* recv() returns the next frame queued on the socket *)
ThreadRecv(k) ==
  /\ tpc[k] = "recv"
  /\ SockOpen(tsock[k])
  /\ wire[tsock[k]] # <<>>
  /\ tdata' = [tdata EXCEPT ![k] = Head(wire[tsock[k]])]
  /\ wire' = [wire EXCEPT ![tsock[k]] = Tail(@)]
  /\ tpc' = [tpc EXCEPT ![k] = "handle"]
  /\ UNCHANGED <<inst, streams, zmqs, tsock, tbuf, dispatched, pushedTo, peerLog, peerBuf,
                 sent, caller>>

(* The socket was closed under a recv() in flight: the call may raise     *)
(* (or stay blocked, which is this action not being taken).               *)
ThreadRecvRaise(k) ==
  /\ tpc[k] = "recv"
  /\ ~SockOpen(tsock[k])
  /\ tpc' = [tpc EXCEPT ![k] = "done"]
  /\ UNCHANGED <<inst, streams, zmqs, tsock, tdata, tbuf, dispatched, peer,
                 sent, caller>>

(* a pass that goes on as if nothing had been raised *)
AfterPassRetry(d, h) == "check"

(* Where the loop goes after one `for msg in unpacker` pass that drained  *)
(* d and handed h to the handler: the except branch breaks when the       *)
(* unpacker or the handler raised, else the while test comes next.        *)
AfterPass(d, h) ==
  IF d.err \/ Len(h) < Len(d.msgs) \/ (h # <<>> /\ Route(h[Len(h)]) = "raise")
  THEN "done" ELSE "check"

(* Lines 123-130: break on empty data; else feed, handle every msg the    *)
(* unpacker yields; any exception ends the loop.                          *)
ThreadHandle(k) ==
  /\ tpc[k] = "handle"
  /\ IF tdata[k] = <<>>
     THEN /\ tpc' = [tpc EXCEPT ![k] = "done"]
          /\ UNCHANGED <<tbuf, dispatched, streams>>
     ELSE LET d == Drain(tbuf[k] \o tdata[k])
              h == Handed(d.msgs) IN
          /\ tbuf' = [tbuf EXCEPT ![k] = d.rest]
          /\ dispatched' = [dispatched EXCEPT ![k] = @ \o h]
          /\ feedback' = feedback \o Published(h, "feedback")
          /\ state' = state \o Published(h, "state")
          /\ tpc' = [tpc EXCEPT ![k] = AfterPass(d, h)]
  /\ tdata' = [tdata EXCEPT ![k] = <<>>]
  /\ UNCHANGED <<inst, zmqs, tsock, peer, sent, caller>>

(* ------------------------------ remote side --------------------------- *)
(* A PULL socket has a peer once its connect() succeeded, which is when   *)
(* connect went on to create the PUSH socket.                             *)
HasPeer(s) == s \in rsocks /\ s \in ssocks /\ rCloses[s] = 0

InRecord(t, n) == [type |-> t, name_publisher |-> "arm1", payload |-> <<n>>]

(* The frames the remote side sends as its n-th: a record of some type    *)
(* whose payload is n, or an empty frame.                                 *)
Frames(n) ==
  {Packb(InRecord(t, n)) : t \in {TypeFeedback, TypeState, TypeCalcState, TypeVelocity}}
    \cup {<<>>}

(* Frames that exercise every way a pass of the loop can end: a feedback  *)
(* record, an unrecognised record followed by a state record, the empty   *)
(* frame, a byte msgpack cannot decode, and a feedback record without its *)
(* payload.                                                               *)
LoopFrames(n) ==
  { Packb(InRecord(TypeFeedback, n)),
    Packb(InRecord(TypeVelocity, n)) \o Packb(InRecord(TypeState, n)),
    <<>>,
    <<NeverUsed>>,
    Packb([type |-> TypeFeedback, name_publisher |-> "arm1"]) }

(* The remote side sends one whole frame to PULL socket s *)
Push(s, frame) ==
  /\ HasPeer(s)
  /\ Len(pushedTo) < MaxMsgs
  /\ Len(wire[s]) < MaxWire
  /\ wire' = [wire EXCEPT ![s] = Append(@, frame)]
  /\ pushedTo' = Append(pushedTo, s)
  /\ UNCHANGED <<inst, streams, zmqs, threads, peerLog, peerBuf, sent, caller>>

(* The concatenated encodings of a sequence of records *)
RECURSIVE Stream(_)
Stream(recs) == IF recs = <<>> THEN <<>> ELSE Packb(Head(recs)) \o Stream(Tail(recs))

(* The remote side encodes record r onto its byte stream, all of it      *)
(* before the first byte is delivered                                     *)
PeerWrite(r) ==
  /\ Len(peerLog) < MaxMsgs
  /\ peerBuf = Stream(peerLog)
  /\ peerLog' = Append(peerLog, r)
  /\ peerBuf' = peerBuf \o Packb(r)
  /\ UNCHANGED <<inst, streams, zmqs, threads, wire, pushedTo, sent, caller>>

(* The next n >= 1 bytes of that stream arrive at PULL socket s as one    *)
(* chunk.                                                                 *)
PeerFlush(s, n) ==
  /\ HasPeer(s)
  /\ n >= 1 /\ n <= Len(peerBuf)
  /\ Len(wire[s]) < MaxWire
  /\ wire' = [wire EXCEPT ![s] = Append(@, SubSeq(peerBuf, 1, n))]
  /\ peerBuf' = SubSeq(peerBuf, n + 1, Len(peerBuf))
  /\ UNCHANGED <<inst, streams, zmqs, threads, pushedTo, peerLog, sent, caller>>


(* --------------------------- command encoder -------------------------- *)
(* An optional list is <<>> for None and <<l>> for the list l.            *)
Some(l) == <<l>>

(* `x if x else []` *)
OrEmpty(x) == IF x # <<>> /\ x[1] # <<>> THEN x[1] ELSE <<>>

send_velocity_as_position(vel, name) ==
  [type |-> TypePosition, name_publisher |-> name, payload |-> [joint_values |-> vel]]

send_velocity(vel, name) ==
  [type |-> TypeVelocity, name_publisher |-> name, payload |-> [joint_values |-> vel]]

send_position(pos, name) ==
  [type |-> TypePosition, name_publisher |-> name, payload |-> [joint_values |-> pos]]

send_effort(eff, name) ==
  [type |-> TypeEffort, name_publisher |-> name, payload |-> [joint_values |-> eff]]

TrajDictNoDefault(tp) ==
  [positions |-> OrEmpty(tp.positions),
   velocities |-> OrEmpty(tp.velocities),
   effort |-> OrEmpty(tp.effort),
   seconds |-> tp.seconds,
   nanoseconds |-> tp.nanoseconds]

(* the traj_dict built for one TrajPoint *)
TrajDict(tp) ==
  [positions |-> OrEmpty(tp.positions),
   velocities |-> OrEmpty(tp.velocities),
   accelerations |-> OrEmpty(tp.accelerations),
   effort |-> OrEmpty(tp.effort),
   seconds |-> tp.seconds,
   nanoseconds |-> tp.nanoseconds]

send_trajectory(trajPoints, name, joint_names) ==
  [type |-> TypeTrajectory, name_publisher |-> name,
   payload |-> [joint_traj_points |-> [i \in 1..Len(trajPoints) |-> TrajDict(trajPoints[i])],
                joint_names |-> joint_names]]

send_joypad(buttons, axes, name) ==
  [type |-> TypeJoypad, name_publisher |-> name,
   payload |-> [buttons |-> buttons, axes |-> axes]]

(* The message the send_* method named by cmd.op builds from cmd's arguments *)
Message(cmd) ==
  CASE cmd.op = "send_velocity" -> send_velocity(cmd.values, cmd.name)
    [] cmd.op = "send_position" -> send_position(cmd.values, cmd.name)
    [] cmd.op = "send_effort" -> send_effort(cmd.values, cmd.name)
    [] cmd.op = "send_trajectory" -> send_trajectory(cmd.points, cmd.name, cmd.joint_names)
    [] cmd.op = "send_joypad" -> send_joypad(cmd.buttons, cmd.axes, cmd.name)

(* a send path that also gives up once the receive loop has ended *)
UnconnectedOrLoopEnded(sock) ==
  sock = 0 \/ (recv_thread # 0 /\ tpc[recv_thread] = "done")

(* `if not self._zmq_socket_send` *)
Unconnected(sock) == sock = 0

(* _send_message: RuntimeError when the send socket field is None; else   *)
(* send() queues the frame on a connected PUSH socket, raises on a closed *)
(* one, and blocks on one that has no peer (its connect() raised).        *)
SendMessage(message) ==
  /\ callerPc = "idle"
  /\ IF Unconnected(zmq_socket_send)
     THEN /\ result' = "RuntimeError"
          /\ callerPc' = "idle"
          /\ UNCHANGED sent
     ELSE IF sCloses[zmq_socket_send] > 0
     THEN /\ result' = "ZMQError"
          /\ callerPc' = "idle"
          /\ UNCHANGED sent
     ELSE IF zmq_socket_send \notin sconn
     THEN /\ callerPc' = "send"
          /\ UNCHANGED <<sent, result>>
     ELSE /\ Len(sent) < MaxSends
          /\ sent' = Append(sent, [sock |-> zmq_socket_send, data |-> message])
          /\ result' = "ok"
          /\ callerPc' = "idle"
  /\ lastOp' = IF callerPc' = "idle" THEN "send" ELSE lastOp
  /\ prevOp' = IF callerPc' = "idle" THEN lastOp ELSE prevOp
  /\ UNCHANGED <<inst, streams, zmqs, threads, peer, connected>>

(* one of send_velocity, send_position, send_effort, send_trajectory, send_joypad *)
Send(cmd) == SendMessage(Message(cmd))

(* ------------------------------- inputs ------------------------------- *)
TcpParams == [ip |-> "10.0.0.1", port_recv |-> "5555", port_send |-> "5556"]

(* the connect calls of the lifecycle specification: one that succeeds,   *)
(* missing parameters, an unknown protocol, and one bad endpoint each way *)
SpecInputs ==
  { [protocol |-> "tcp", params |-> TcpParams],
    [protocol |-> "TCP", params |-> <<>>],
    [protocol |-> "FOO", params |-> TcpParams],
    [protocol |-> "0MQ", params |-> [endpoint_recv |-> "bogus", endpoint_send |-> "ipc:///s"]],
    [protocol |-> "0MQ", params |-> [endpoint_recv |-> "ipc:///r", endpoint_send |-> "bogus"]] }

Point(p, v, a, e, s, n) ==
  [positions |-> p, velocities |-> v, accelerations |-> a, effort |-> e,
   seconds |-> s, nanoseconds |-> n]

(* TrajPoint values: every field given; lists that are None or empty;     *)
(* the point of the scenario with its effort None.                        *)
TrajPoints ==
  { Point(Some(<<1>>), Some(<<2>>), Some(<<3>>), Some(<<4>>), 1, 500),
    Point(<<>>, <<>>, Some(<<>>), Some(<<>>), 2, 0),
    Point(Some(<<1>>), Some(<<>>), Some(<<>>), <<>>, 5, 0) }

RECURSIVE SeqsUpTo(_, _)
SeqsUpTo(S, n) ==
  IF n = 0 THEN {<<>>}
  ELSE LET shorter == SeqsUpTo(S, n - 1) IN
    shorter \cup {Append(q, x) : q \in shorter, x \in S}

Values == {<<>>, <<1, 2>>}
Names == {"arm1", "cam"}

(* the send_* calls of the lifecycle specification *)
BasicCmds ==
  { [op |-> "send_velocity", values |-> <<1>>, name |-> "arm1"],
    [op |-> "send_joypad", buttons |-> <<1>>, axes |-> <<2>>, name |-> "arm1"] }

(* the send_* calls of the command specification *)
AllCmds ==
  { [op |-> o, values |-> v, name |-> n] :
      o \in {"send_velocity", "send_position", "send_effort"}, v \in Values, n \in Names }
  \cup { [op |-> "send_trajectory", points |-> ps, name |-> n, joint_names |-> <<"j1">>] :
           ps \in SeqsUpTo(TrajPoints, MaxPts), n \in {"arm1"} }
  \cup { [op |-> "send_joypad", buttons |-> b, axes |-> <<1, 2>>, name |-> "cam"] :
           b \in Values }

(* the records the remote side writes in the chunked-stream specification *)
ChunkRecords ==
  { [type |-> TypeFeedback, name_publisher |-> "arm1", payload |-> <<>>],
    [type |-> TypeVelocity, name_publisher |-> "cam", payload |-> <<7>>],
    [type |-> TypeState, name_publisher |-> "arm1", payload |-> <<1, 2>>] }

ZmqParams == [endpoint_recv |-> "ipc:///r", endpoint_send |-> "ipc:///s"]

(* the connect calls of the connection specification: those above and     *)
(* every protocol name and parameter form of the interface table          *)
ConnInputs ==
  SpecInputs \cup
  { [protocol |-> "TCP", params |-> [ip |-> "10.0.0.1", port |-> "5555"]],
    [protocol |-> "TCP", params |-> [port_recv |-> "5555", port_send |-> "5556"]],
    [protocol |-> "UDS", params |-> [path_recv |-> "/r", path_send |-> "/s"]],
    [protocol |-> "uds", params |-> [path |-> "/p"]],
    [protocol |-> "0mq", params |-> ZmqParams],
    [protocol |-> "0MQ", params |-> [endpoint |-> "ipc:///e"]],
    [protocol |-> "ZMQ", params |-> ZmqParams],
    [protocol |-> "zmq", params |-> [endpoint |-> "ipc:///e"]] }

(* --------------------------- specifications --------------------------- *)
ThreadStep(k) ==
  \/ ThreadCheck(k)
  \/ ThreadIssue(k)
  \/ ThreadRecv(k)
  \/ ThreadRecvRaise(k)
  \/ ThreadHandle(k)

(* The whole lifecycle: the caller path, the receive threads and a remote *)
(* side that sends whole frames.                                          *)
Next ==
  \/ \E i \in SpecInputs : Connect(i.protocol, i.params)
  \/ DisconnectStart
  \/ DisconnectFinish
  \/ \E c \in BasicCmds : Send(c)
  \/ \E s \in Ids : \E f \in Frames(Len(pushedTo) + 1) : Push(s, f)
  \/ \E k \in Ids : ThreadStep(k)

Spec == Init /\ [][Next]_vars


(* The lifecycle with every connect input and a remote side that only     *)
(* ever sends the empty frame.                                            *)
LifeNext ==
  \/ \E i \in ConnInputs : Connect(i.protocol, i.params)
  \/ DisconnectStart
  \/ DisconnectFinish
  \/ \E s \in Ids : Push(s, <<>>)
  \/ \E k \in Ids : ThreadStep(k)

LifeSpec == Init /\ [][LifeNext]_vars

(* The lifecycle with a remote side that never sends anything.  The       *)
(* threads are scheduled (they take the steps they can take) and a        *)
(* disconnect whose join() can return goes on; a recv() on a socket       *)
(* closed under it may stay blocked, so that step has no fairness.        *)
SilentNext ==
  \/ \E i \in SpecInputs : Connect(i.protocol, i.params)
  \/ DisconnectStart
  \/ DisconnectFinish
  \/ \E k \in Ids : ThreadCheck(k) \/ ThreadIssue(k) \/ ThreadRecvRaise(k)

FairSpec ==
  /\ Init
  /\ [][SilentNext]_vars
  /\ WF_vars(DisconnectFinish)
  /\ \A k \in Ids : WF_vars(ThreadCheck(k) \/ ThreadIssue(k))

(* the first connect call of the instance, with parameters that succeed *)
ConnectOnce ==
  /\ nctx = 0
  /\ Connect("tcp", TcpParams)

(* One connection whose remote side writes records onto a byte stream     *)
(* that reaches the receive loop cut into chunks at any byte boundaries.  *)
ChunkNext ==
  \/ ConnectOnce
  \/ \E r \in ChunkRecords : PeerWrite(r)
  \/ \E s \in Ids : \E n \in 1..Len(peerBuf) : PeerFlush(s, n)
  \/ \E k \in Ids : ThreadCheck(k) \/ ThreadIssue(k) \/ ThreadRecv(k) \/ ThreadHandle(k)

ChunkSpec == Init /\ [][ChunkNext]_vars

(* The send_* commands with all their inputs around one connection *)
CmdNext ==
  \/ ConnectOnce
  \/ \E c \in AllCmds : Send(c)
  \/ DisconnectStart
  \/ DisconnectFinish
  \/ \E k \in Ids : ThreadCheck(k) \/ ThreadIssue(k)

CmdSpec == Init /\ [][CmdNext]_vars


(* a connect call that succeeds: the first of the instance, or the one    *)
(* reconnect made without a disconnect in between                         *)
ConnectTwice ==
  /\ nctx = 0 \/ (nctx = 1 /\ connected)
  /\ Connect("tcp", TcpParams)

(* The receive loop under every kind of frame, with one reconnect and     *)
(* teardown beside it.                                                    *)
LoopNext ==
  \/ ConnectTwice
  \/ DisconnectStart
  \/ DisconnectFinish
  \/ \E s \in Ids : \E f \in LoopFrames(Len(pushedTo) + 1) : Push(s, f)
  \/ \E k \in Ids : ThreadStep(k)

LoopSpec == Init /\ [][LoopNext]_vars

(* the frames that end a receive loop: the empty one and an undecodable one *)
EndFrames == {<<>>, <<NeverUsed>>}

(* One connection whose receive loop is ended by the remote side while    *)
(* the caller goes on sending.                                            *)
SendLoopNext ==
  \/ ConnectOnce
  \/ DisconnectStart
  \/ DisconnectFinish
  \/ \E s \in Ids : \E f \in EndFrames : Push(s, f)
  \/ \E k \in Ids : ThreadCheck(k) \/ ThreadIssue(k) \/ ThreadRecv(k) \/ ThreadHandle(k)
  \/ \E c \in BasicCmds : Send(c)

SendLoopSpec == Init /\ [][SendLoopNext]_vars

(* a connect call that succeeds, made on a fresh instance or after a      *)
(* disconnect has returned                                                *)
Reconnect ==
  /\ ~connected
  /\ Connect("tcp", TcpParams)

(* the feedback or state record the remote side sends as its n-th *)
StreamFrames(n) == {Packb(InRecord(t, n)) : t \in {TypeFeedback, TypeState}}

(* Connections made one after the other, each torn down before the next,  *)
(* with a remote side that sends feedback and state records.              *)
StreamNext ==
  \/ Reconnect
  \/ DisconnectStart
  \/ DisconnectFinish
  \/ \E s \in Ids : \E f \in StreamFrames(Len(pushedTo) + 1) : Push(s, f)
  \/ \E k \in Ids : ThreadCheck(k) \/ ThreadIssue(k) \/ ThreadRecv(k) \/ ThreadHandle(k)

StreamSpec == Init /\ [][StreamNext]_vars

(* ------------------------------- claims ------------------------------- *)
Vals(seq) == {seq[i] : i \in 1..Len(seq)}

Alive(k) == tpc[k] \notin {"none", "done"}

(* C1: every record handed to _handle_incoming_message is published on    *)
(* the feedback stream only when its type is 1, on the state stream only  *)
(* when its type is 2 or 10, and on neither stream for any other type.    *)
C1_DispatchRouting ==
  \A k \in Ids : \A i \in 1..Len(dispatched[k]) :
    LET m == dispatched[k][i] IN
      "payload" \in DOMAIN m =>
        /\ m.type = 1 => m.payload \in Vals(feedback) /\ m.payload \notin Vals(state)
        /\ m.type \in {2, 10} => m.payload \in Vals(state) /\ m.payload \notin Vals(feedback)
        /\ m.type \notin {1, 2, 10} =>
             m.payload \notin Vals(feedback) /\ m.payload \notin Vals(state)

(* C2: a disconnect that waits in join() while the receive loop is        *)
(* blocked in recv() eventually returns, with the loop terminated, even   *)
(* though the remote side never sends anything.                           *)
C2_DisconnectReturns ==
  (callerPc = "join" /\ recv_thread # 0 /\ tpc[recv_thread] = "recv")
    ~> (callerPc = "idle" /\ recv_thread # 0 /\ tpc[recv_thread] = "done")

(* C3: at any time at most one receive thread is alive and at most one    *)
(* context, one receive socket and one send socket are unreleased.        *)
C3_AtMostOnePair ==
  /\ Cardinality({k \in Ids : Alive(k)}) <= 1
  /\ Cardinality({k \in Ids : k <= nctx /\ ctxTerms[k] = 0}) <= 1
  /\ Cardinality({k \in rsocks : rCloses[k] = 0}) <= 1
  /\ Cardinality({k \in ssocks : sCloses[k] = 0}) <= 1

AfterDisconnect == lastOp \in {"disconnect", "init"}

(* C4: a disconnect called directly after a disconnect has returned, or   *)
(* on an instance no operation was called on yet, does not wait in        *)
(* join(), raises nothing, closes no socket and terminates no context     *)
(* (again), and leaves every field of the instance as it was.             *)
C4_DisconnectIdempotent ==
  /\ [](callerPc = "join" /\ AfterDisconnect => ENABLED DisconnectFinish)
  /\ [][(AfterDisconnect /\ (DisconnectStart \/ DisconnectFinish))
          => /\ inst' = inst
             /\ zmqs' = zmqs
             /\ result' = "ok"
             /\ callerPc' \in {"join", "idle"}]_vars

(* a second disconnect has returned on an instance that had been connected *)
C4_Witness ==
  /\ lastOp = "disconnect" /\ prevOp = "disconnect" /\ callerPc = "idle"
  /\ \E k \in Ids : k \in sconn /\ rCloses[k] = 1 /\ sCloses[k] = 1 /\ ctxTerms[k] = 1

(* the parameters the docstring of connect requires per protocol *)
Required(P) ==
  CASE P = "TCP" -> {"ip", "port_recv", "port_send"}
    [] P = "UDS" -> {"path_recv", "path_send"}
    [] P = "0MQ" -> {"endpoint_recv", "endpoint_send"}
    [] OTHER -> {}

Unknown(i) == Upper(i.protocol) \notin {"TCP", "UDS", "0MQ"}

Missing(i) == ~Unknown(i) /\ \E key \in Required(Upper(i.protocol)) : key \notin DOMAIN i.params

(* C5: a connect call with an unknown protocol name, or with a known      *)
(* protocol and a required parameter missing, raises ValueError having    *)
(* created no socket, connected nothing and started no receive thread.    *)
C5_ConnectValidation ==
  [][\A i \in ConnInputs :
       (Connect(i.protocol, i.params) /\ (Unknown(i) \/ Missing(i)))
         => /\ result' = "ValueError"
            /\ rsocks' = rsocks /\ ssocks' = ssocks /\ sconn' = sconn
            /\ zmq_socket_recv' = zmq_socket_recv /\ zmq_socket_send' = zmq_socket_send
            /\ tpc' = tpc /\ recv_thread' = recv_thread /\ running' = running
            /\ wire' = wire /\ sent' = sent]_vars

(* connect("TCP", {}) has just failed on an instance with no socket yet *)
C5_Witness ==
  /\ lastOp = "connect" /\ result = "ValueError" /\ protocol = "TCP"
  /\ nctx = 1 /\ rsocks = {} /\ ssocks = {} /\ \A k \in Ids : tpc[k] = "none"


(* C6: a send_* call made while no connect has succeeded since the last   *)
(* disconnect (or ever) raises the not-connected RuntimeError and         *)
(* transmits nothing; made after a successful connect and before the next *)
(* disconnect it transmits exactly one record.                            *)
C6_SendNeedsConnection ==
  [][\A c \in BasicCmds :
       Send(c) =>
         IF connected
         THEN result' = "ok" /\ sent' = Append(sent, sent'[Len(sent')])
         ELSE result' = "RuntimeError" /\ sent' = sent /\ callerPc' = "idle"]_vars

(* C7: on each stream the values pushed to one receive socket appear in   *)
(* the order they were pushed and received, none twice, and every         *)
(* dispatched record routed to the stream is on it.                       *)
InOrder(st) ==
  \A i, j \in 1..Len(st) :
    i < j /\ pushedTo[st[i][1]] = pushedTo[st[j][1]] => st[i][1] < st[j][1]

NoneDropped(st, name) ==
  \A k \in Ids : \A i \in 1..Len(dispatched[k]) :
    Route(dispatched[k][i]) = name => dispatched[k][i].payload \in Vals(st)

C7_StreamOrder ==
  /\ InOrder(feedback) /\ NoneDropped(feedback, "feedback")
  /\ InOrder(state) /\ NoneDropped(state, "state")

IsPrefix(a, b) == Len(a) <= Len(b) /\ a = SubSeq(b, 1, Len(a))

RECURSIVE Flat(_)
Flat(chunks) == IF chunks = <<>> THEN <<>> ELSE Head(chunks) \o Flat(Tail(chunks))

(* C8: whatever the chunk boundaries, the loop has dispatched exactly the *)
(* records whose encoding it has received completely, in the order they   *)
(* were written and once each; the bytes of a trailing partial record     *)
(* stay buffered; the loop does not stop.                                 *)
C8_ChunkedDecoding ==
  \A k \in Ids :
    IF ~Alive(k) THEN tpc[k] = "none" /\ dispatched[k] = <<>>
    ELSE
      /\ IsPrefix(dispatched[k], peerLog)
      /\ Stream(dispatched[k]) \o tbuf[k] \o tdata[k] \o Flat(wire[k]) \o peerBuf
           = Stream(peerLog)
      /\ tpc[k] # "handle" =>
           IF Len(dispatched[k]) = Len(peerLog) THEN tbuf[k] = <<>>
           ELSE Len(tbuf[k]) < Len(Packb(peerLog[Len(dispatched[k]) + 1]))

(* one record is dispatched, part of the second is buffered, and the      *)
(* receive that completes it has returned                                 *)
C8_Witness ==
  /\ Len(peerLog) = 2 /\ Len(dispatched[1]) = 1
  /\ tpc[1] = "handle" /\ tbuf[1] # <<>> /\ tdata[1] # <<>>
  /\ tbuf[1] \o tdata[1] = Packb(peerLog[2])

ExpectedTag(op) ==
  CASE op = "send_trajectory" -> 20
    [] op = "send_position" -> 30
    [] op = "send_velocity" -> 31
    [] op = "send_effort" -> 32
    [] op = "send_joypad" -> 50

(* C9: a send_* call that transmits adds exactly one record with the keys *)
(* type, name_publisher and payload, the type tag fixed for the command   *)
(* (never 1, 2 or 10), the name argument, and for velocity, position and  *)
(* effort the payload {"joint_values": values}.                           *)
C9_CommandRecords ==
  [][\A c \in AllCmds :
       (Send(c) /\ sent' # sent) =>
         LET m == sent'[Len(sent')].data IN
           /\ sent' = Append(sent, sent'[Len(sent')])
           /\ DOMAIN m = {"type", "name_publisher", "payload"}
           /\ m.type = ExpectedTag(c.op)
           /\ m.type \notin {1, 2, 10}
           /\ m.name_publisher = c.name
           /\ c.op \in {"send_velocity", "send_position", "send_effort"}
                => m.payload = [joint_values |-> c.values]]_vars

(* the scenario's send_position record has been transmitted *)
C9_Witness ==
  \E i \in 1..Len(sent) :
    sent[i].data = [type |-> 30, name_publisher |-> "arm1",
                    payload |-> [joint_values |-> <<1, 2>>]]

ListOf(o) == IF o = <<>> THEN <<>> ELSE o[1]

(* C10: the joint_traj_points of a transmitted trajectory has one entry   *)
(* per input point, in input order, each with the six keys; a list that   *)
(* is None or empty in the point is the empty sequence in the entry.      *)
C10_TrajectoryPayload ==
  [][\A c \in AllCmds :
       (c.op = "send_trajectory" /\ Send(c) /\ sent' # sent) =>
         LET pts == sent'[Len(sent')].data.payload.joint_traj_points IN
           /\ DOMAIN pts = 1..Len(c.points)
           /\ \A i \in 1..Len(c.points) :
                /\ DOMAIN pts[i] = {"positions", "velocities", "accelerations", "effort",
                                    "seconds", "nanoseconds"}
                /\ pts[i].positions = ListOf(c.points[i].positions)
                /\ pts[i].velocities = ListOf(c.points[i].velocities)
                /\ pts[i].accelerations = ListOf(c.points[i].accelerations)
                /\ pts[i].effort = ListOf(c.points[i].effort)
                /\ pts[i].seconds = c.points[i].seconds
                /\ pts[i].nanoseconds = c.points[i].nanoseconds]_vars

(* a trajectory whose first point is the scenario's has been transmitted *)
C10_Witness ==
  \E i \in 1..Len(sent) :
    /\ sent[i].data.type = 20
    /\ Len(sent[i].data.payload.joint_traj_points) >= 1
    /\ sent[i].data.payload.joint_traj_points[1] =
         [positions |-> <<1>>, velocities |-> <<>>, accelerations |-> <<>>,
          effort |-> <<>>, seconds |-> 5, nanoseconds |-> 0]


Has(i, keys) == keys \subseteq DOMAIN i.params

(* the protocol name of input i, whatever its case *)
Named(i, name) ==
  \/ i.protocol = name
  \/ name = "TCP" /\ i.protocol = "tcp"
  \/ name = "UDS" /\ i.protocol = "uds"
  \/ name = "0MQ" /\ i.protocol = "0mq"
  \/ name = "ZMQ" /\ i.protocol = "zmq"

(* the parameter forms of the interface table, per protocol name *)
TableForm(i) ==
  \/ Named(i, "TCP") /\ (Has(i, {"ip", "port"}) \/ Has(i, {"ip", "port_recv", "port_send"}))
  \/ Named(i, "UDS") /\ (Has(i, {"path"}) \/ Has(i, {"path_recv", "path_send"}))
  \/ (Named(i, "ZMQ") \/ Named(i, "0MQ"))
       /\ (Has(i, {"endpoint"}) \/ Has(i, {"endpoint_recv", "endpoint_send"}))

(* the two-channel forms among them, under the names TCP, UDS and 0MQ *)
SplitForm(i) ==
  \/ Named(i, "TCP") /\ Has(i, {"ip", "port_recv", "port_send"})
  \/ Named(i, "UDS") /\ Has(i, {"path_recv", "path_send"})
  \/ Named(i, "0MQ") /\ Has(i, {"endpoint_recv", "endpoint_send"})

(* C11 as stated: no connect call whose protocol and parameters have a    *)
(* form of the interface table raises ValueError.                         *)
C11_TableFormsAccepted ==
  [][\A i \in ConnInputs :
       (Connect(i.protocol, i.params) /\ TableForm(i)) => result' # "ValueError"]_vars

(* C11 amended: compared case-insensitively, TCP with ip, port_recv and   *)
(* port_send, UDS with path_recv and path_send and 0MQ with endpoint_recv *)
(* and endpoint_send pass validation; the other forms of the table (a     *)
(* single port, path or endpoint, the name ZMQ) raise ValueError.         *)
C11_SplitFormsAccepted ==
  [][\A i \in ConnInputs :
       (Connect(i.protocol, i.params) /\ TableForm(i))
         => (result' # "ValueError" <=> SplitForm(i))]_vars

(* connect("0mq", {endpoint_recv, endpoint_send}) has just succeeded *)
C11_Witness ==
  /\ lastOp = "connect" /\ result = "ok" /\ protocol = "0MQ"
  /\ endpoint_recv = <<"ipc:///r">> /\ zmq_socket_recv = nctx


(* thread k is inside a recv() on PULL socket s, or has passed the test of *)
(* the stop flag and is about to issue a recv() on it                     *)
MayUse(k, s) ==
  \/ tpc[k] = "recv" /\ tsock[k] = s
  \/ tpc[k] = "call" /\ zmq_socket_recv = s

(* C12: no PULL socket is closed, and no context terminated, while a      *)
(* receive thread that is inside a recv() on that socket (or a socket of  *)
(* that context), or about to issue one, is alive.                        *)
C12_NoTeardownRace ==
  [][\A s \in Ids :
       (rCloses'[s] > rCloses[s] \/ ctxTerms'[s] > ctxTerms[s])
         => \A k \in Ids : ~MayUse(k, s)]_vars

(* C13: no context is terminated twice or while a socket created from it  *)
(* is open, and when a disconnect has returned every context created so   *)
(* far has been terminated.                                               *)
C13_ContextsTerminated ==
  /\ \A c \in Ids : ctxTerms[c] <= 1
  /\ \A c \in Ids : ctxTerms[c] = 1 =>
       /\ c \in rsocks => rCloses[c] > 0
       /\ c \in ssocks => sCloses[c] > 0
  /\ (lastOp = "disconnect" /\ callerPc = "idle")
       => \A c \in 1..nctx : ctxTerms[c] = 1


(* what the pass thread k is about to make drains from its unpacker *)
Pass(k) == Drain(tbuf[k] \o tdata[k])

(* the handler raises on m: no map, or a feedback or state record that    *)
(* lacks its payload                                                      *)
Raises(m) ==
  \/ "type" \notin DOMAIN m
  \/ m.type \in {TypeFeedback, TypeState} /\ "payload" \notin DOMAIN m

(* thread k holds the result of a recv() that ends the loop: empty data,  *)
(* bytes the unpacker raises on, or a msg the handler raises on           *)
Fails(k) ==
  /\ tpc[k] = "handle"
  /\ \/ tdata[k] = <<>>
     \/ Pass(k).err
     \/ \E i \in 1..Len(Pass(k).msgs) : Raises(Pass(k).msgs[i])

(* C14: a receive loop whose recv() returned empty data, or in which the  *)
(* recv(), the decoding or the dispatch raised, ends at once; an ended    *)
(* loop stays ended: it issues no recv() and hands nothing more to the    *)
(* dispatcher.                                                            *)
C14_LoopExitFinal ==
  [][\A k \in Ids :
       /\ (Fails(k) /\ tpc'[k] # tpc[k]) => tpc'[k] = "done"
       /\ (tpc[k] = "recv" /\ ~SockOpen(tsock[k]) /\ tpc'[k] # tpc[k])
            => tpc'[k] = "done"
       /\ (tpc[k] = "call" /\ ~SockOpen(zmq_socket_recv) /\ tpc'[k] # tpc[k])
            => tpc'[k] = "done"
       /\ tpc[k] = "done" =>
            /\ tpc'[k] = "done"
            /\ tsock'[k] = tsock[k]
            /\ dispatched'[k] = dispatched[k]
            /\ tbuf'[k] = tbuf[k]]_vars

(* C14 happens: a loop has ended while the stop flag is clear, and a      *)
(* frame sent after that waits unread on its open socket.                 *)
C14_Witness ==
  \E k \in Ids :
    /\ tpc[k] = "done" /\ running /\ recv_thread = k
    /\ tsock[k] # 0 /\ SockOpen(tsock[k]) /\ wire[tsock[k]] # <<>>

Recognised == {TypeFeedback, TypeState, TypeCalcState}

(* the payloads of the records of type t among msgs, in order *)
Payloads(msgs, t) ==
  LET sel == SelectSeq(msgs, LAMBDA m : m.type = t) IN
    [i \in 1..Len(sel) |-> sel[i].payload]

(* the pass thread k is about to make yields complete records only, none  *)
(* of type 10, and at least one of an unrecognised type                   *)
HasUnknown(k) ==
  /\ tpc[k] = "handle" /\ tdata[k] # <<>> /\ ~Pass(k).err
  /\ \A i \in 1..Len(Pass(k).msgs) :
       /\ {"type", "payload"} \subseteq DOMAIN Pass(k).msgs[i]
       /\ Pass(k).msgs[i].type # TypeCalcState
  /\ \E i \in 1..Len(Pass(k).msgs) : Pass(k).msgs[i].type \notin Recognised

(* C16: a pass that meets a record of an unrecognised type publishes      *)
(* nothing for it, raises nothing and goes back to the loop test; the     *)
(* records around it, those after it included, are published as usual.    *)
C16_UnknownTypeDropped ==
  [][\A k \in Ids :
       (HasUnknown(k) /\ tpc'[k] # tpc[k]) =>
         /\ tpc'[k] = "check"
         /\ dispatched'[k] = dispatched[k] \o Pass(k).msgs
         /\ feedback' = feedback \o Payloads(Pass(k).msgs, TypeFeedback)
         /\ state' = state \o Payloads(Pass(k).msgs, TypeState)]_vars

(* C16 happens: a thread still in its loop has handled an unrecognised    *)
(* record and then a state record whose payload is on the state stream.   *)
C16_Witness ==
  \E k \in Ids :
    /\ Alive(k)
    /\ \E i, j \in 1..Len(dispatched[k]) :
         /\ i < j
         /\ dispatched[k][i].type = TypeVelocity
         /\ dispatched[k][j].type = TypeState
         /\ dispatched[k][j].payload \in Vals(state)


(* C15: no recv() is issued while the stop flag is set (_running is       *)
(* False): a recv() in flight was issued before disconnect cleared it.    *)
C15_NoRecvAfterStop ==
  [][\A k \in Ids : (tpc[k] # "recv" /\ tpc'[k] = "recv") => running]_vars

(* the receive loop of the current connection has ended and disconnect    *)
(* has not been called                                                    *)
LoopEnded == connected /\ recv_thread # 0 /\ tpc[recv_thread] = "done"

(* C17: the step that ends a receive loop changes no field of the         *)
(* instance, no socket and no context; and a send command issued after    *)
(* the loop of the connection has ended, before disconnect, hands its     *)
(* record to the send socket and returns normally.                        *)
C17_SendSurvivesLoopExit ==
  [][/\ \A k \in Ids : (tpc[k] # "done" /\ tpc'[k] = "done")
          => UNCHANGED <<inst, zmqs, sent, caller>>
     /\ \A c \in BasicCmds : (LoopEnded /\ Send(c)) =>
          /\ result' = "ok"
          /\ callerPc' = "idle"
          /\ sent' = Append(sent, [sock |-> zmq_socket_send, data |-> Message(c)])]_vars

(* C17 happens: the loop has ended on a frame from the remote side, the   *)
(* connection is still up and a send has returned normally.               *)
C17_Witness ==
  /\ LoopEnded
  /\ pushedTo # <<>>
  /\ lastOp = "send" /\ result = "ok"
  /\ sent # <<>> /\ sent[Len(sent)].sock = zmq_socket_send


(* C18: when a disconnect has returned, no receive thread the instance    *)
(* ever started is alive, and the context and both socket fields are None.*)
C18_NothingLeftAfterDisconnect ==
  (lastOp = "disconnect" /\ callerPc = "idle") =>
    /\ \A k \in Ids : ~Alive(k)
    /\ zmq_context = 0 /\ zmq_socket_recv = 0 /\ zmq_socket_send = 0

(* C19: a connect call that raises ValueError leaves the protocol, both   *)
(* endpoints, the context handle, both socket handles, the running flag   *)
(* and the thread handle as they were, and creates no context.            *)
C19_FailedConnectAtomic ==
  [][\A i \in ConnInputs :
       (Connect(i.protocol, i.params) /\ result' = "ValueError") =>
         UNCHANGED <<protocol, endpoint_recv, endpoint_send, zmq_context,
                     zmq_socket_recv, zmq_socket_send, running, recv_thread,
                     nctx>>]_vars

(* thread k is about to handle a frame of complete records *)
Delivers(k) ==
  /\ tpc[k] = "handle" /\ tdata[k] # <<>> /\ ~Pass(k).err
  /\ \A i \in 1..Len(Pass(k).msgs) : {"type", "payload"} \subseteq DOMAIN Pass(k).msgs[i]

(* C20: what a subscriber of either stream has been given is never taken  *)
(* back or cut off: both streams only grow, and every feedback or state   *)
(* record a receive loop handles, on the first connection or on one made  *)
(* after a disconnect, is delivered on the same stream.                   *)
C20_StreamsOutliveConnections ==
  [][/\ IsPrefix(feedback, feedback')
     /\ IsPrefix(state, state')
     /\ \A k \in Ids : (Delivers(k) /\ tpc'[k] # tpc[k]) =>
          /\ feedback' = feedback \o Payloads(Pass(k).msgs, TypeFeedback)
          /\ state' = state \o Payloads(Pass(k).msgs, TypeState)]_vars

(* C20 happens: the feedback stream holds a value of the first connection *)
(* followed by one of a connection made after the first was torn down.    *)
C20_Witness ==
  /\ ctxTerms[1] = 1
  /\ dispatched[1] # <<>> /\ dispatched[2] # <<>>
  /\ feedback = <<dispatched[1][1].payload, dispatched[2][1].payload>>

====
